---- MODULE Spec2Model ----
(***************************************************************************)
(* A model of pixeltron's cli.py: pixelate_image (open, resolve the grid,  *)
(* shrink, enlarge, derive the output path, save) and the command-line     *)
(* main that calls it once and maps the outcome to an exit code.           *)
(*                                                                         *)
(* Paths and messages are sequences of one-character strings.  An image is *)
(* a record [size |-> <<w, h>>, px |-> the colours, px[x][y]], with        *)
(* 0-based coordinates.  The image codec (PIL) is an external             *)
(* collaborator: Image.open identifies the file and keeps it open; the     *)
(* pixel data is decoded by the first operation that needs it (resize).    *)
(* Its arithmetic on doubles is modelled exactly, on integers.             *)
(***************************************************************************)
EXTENDS Integers, Sequences, FiniteSets, TLC

VARIABLES
    pc,                 \* position of main / pixelate_image
    args,               \* main: the parsed command line
    file,               \* what lies on disk at input_path
    input_path,         \* argument
    output_path,        \* argument, then the resolved output path
    width,              \* argument, then the resolved grid width
    height,             \* argument, then the resolved grid height
    pixels_per_pixel,   \* argument
    img,                \* local: the opened image
    small_img,          \* local: the shrunk image
    pixelated_img,      \* local: the enlarged image
    fp_open,            \* the file handle Image.open acquired is still open
    written,            \* the files written, in order: [path, image]
    raised,             \* the exception pixelate_image raised
    ret,                \* the value pixelate_image returned
    stdout,             \* the lines main printed
    exit_code           \* the value main returned

vars == <<pc, args, file, input_path, output_path, width, height, pixels_per_pixel,
          img, small_img, pixelated_img, fp_open, written, raised, ret,
          stdout, exit_code>>

-----------------------------------------------------------------------------
(* Bounds of the model *)

MaxDim == 3         \* source images are 1..MaxDim pixels on each side
MaxGrid == 2        \* supplied width/height range over 0..MaxGrid
MaxScale == 2       \* pixels_per_pixel ranges over 0..MaxScale
MaxPathLen == 3     \* enumerated input paths have 1..MaxPathLen characters

(* Program constants *)

DefaultWidth == 32

\* Optional values (Python's None or a value): <<>> or <<v>>.
None == <<>>
Some(v) == <<v>>
Val(o) == o[1]

NoType == "None"
NoImage == [size |-> <<0, 0>>, px |-> <<>>]
NoException == [type |-> NoType, text |-> <<>>, lineno |-> 0, cause |-> NoType]

-----------------------------------------------------------------------------
(* Text *)

Chars == {"a", ".", "/"}

RECURSIVE StringsUpTo(_)
StringsUpTo(n) ==
    IF n = 0 THEN {<<>>}
    ELSE LET shorter == StringsUpTo(n - 1)
         IN  shorter \cup {Append(s, c) : s \in {t \in shorter : Len(t) = n - 1}, c \in Chars}

AllPaths == StringsUpTo(MaxPathLen) \ {<<>>}

photo_jpg == <<"p", "h", "o", "t", "o", ".", "j", "p", "g">>
photo == <<"p", "h", "o", "t", "o">>
out_png == <<"o", "u", "t", ".", "p", "n", "g">>

\* str.rfind for a one-character needle, in 1-based positions: the largest i
\* with p[i] = c, or 0 when there is none.
RFind(p, c) ==
    LET hits == {i \in 1..Len(p) : p[i] = c}
    IN  IF hits = {} THEN 0 ELSE CHOOSE i \in hits : \A j \in hits : j <= i

\* A split at the last dot of the last path segment, whatever precedes it.
LastDotSplit(p) ==
    LET sepIndex == RFind(p, "/")
        dotIndex == RFind(p, ".")
    IN  IF dotIndex > sepIndex
        THEN <<SubSeq(p, 1, dotIndex - 1), SubSeq(p, dotIndex, Len(p))>>
        ELSE <<p, <<>>>>

\* The loop of os.path.splitext that skips the leading dots of the last
\* segment: the split happens at dotIndex only when a character other than
\* "." lies between the segment's start and dotIndex.
RECURSIVE SkipLeadingDots(_, _, _)
SkipLeadingDots(p, filenameIndex, dotIndex) ==
    IF filenameIndex < dotIndex
    THEN IF p[filenameIndex] # "."
         THEN <<SubSeq(p, 1, dotIndex - 1), SubSeq(p, dotIndex, Len(p))>>
         ELSE SkipLeadingDots(p, filenameIndex + 1, dotIndex)
    ELSE <<p, <<>>>>

\* os.path.splitext(p) on a POSIX path (sep "/", extsep ".").
splitext(p) ==
    LET sepIndex == RFind(p, "/")
        dotIndex == RFind(p, ".")
    IN  IF dotIndex > sepIndex
        THEN SkipLeadingDots(p, sepIndex + 1, dotIndex)
        ELSE <<p, <<>>>>

\* The last segment of p is empty, "." or "..": p names a directory.
NamesDirectory(p) ==
    SubSeq(p, RFind(p, "/") + 1, Len(p)) \in {<<>>, <<".">>, <<".", ".">>}

Suffix == <<"_", "p", "i", "x", "e", "l", "a", "t", "e", "d">>

\* f"{base_name}_pixelated{extension}"
DefaultOutputPath(p) == splitext(p)[1] \o Suffix \o splitext(p)[2]

-----------------------------------------------------------------------------
(* Numbers *)

\* a / b rounded to the nearest integer instead of truncated.
IntRoundDiv(a, b) == (2 * a + b) \div (2 * b)

\* int(a / b) for b > 0: true division, then truncation toward zero.
IntTruncDiv(a, b) == IF a >= 0 THEN a \div b ELSE -((-a) \div b)

-----------------------------------------------------------------------------
(* Images *)

Patterns == {"solid", "index"}

\* The pixels of a source file: one colour everywhere, or a different colour
\* at every position.
SourcePixels(size, pattern) ==
    [x \in 0..(size[1] - 1) |->
        [y \in 0..(size[2] - 1) |->
            IF pattern = "solid" THEN 0 ELSE y * size[1] + x]]

\* Sampling at the low edge of the output cell instead of its centre.
NearestIndexLowEdge(x, n_in, n_out) == (x * n_in) \div n_out

\* The source coordinate Image.NEAREST reads for output coordinate x when an
\* axis of n_in samples is resized to n_out: int((x + 0.5) * n_in / n_out).
NearestIndex(x, n_in, n_out) == ((2 * x + 1) * n_in) \div (2 * n_out)

\* Image.resize(size, Image.NEAREST) for a size with both sides >= 1.
Resize(im, size) ==
    [size |-> size,
     px |-> [x \in 0..(size[1] - 1) |->
                [y \in 0..(size[2] - 1) |->
                    im.px[NearestIndex(x, im.size[1], size[1])]
                         [NearestIndex(y, im.size[2], size[2])]]]]

-----------------------------------------------------------------------------
(* Exceptions of the codec and of pixelate_image *)

FileNotFound == [type |-> "FileNotFoundError", text |-> <<"no such file">>]
Unidentified == [type |-> "UnidentifiedImageError", text |-> <<"cannot identify image file">>]
Truncated == [type |-> "OSError", text |-> <<"image file is truncated">>]
BadSize == [type |-> "ValueError", text |-> <<"height and width must be > 0">>]
CannotWrite == [type |-> "OSError", text |-> <<"cannot write">>]
UnknownExtension == [type |-> "ValueError", text |-> <<"unknown file extension">>]

SaveFailures == {CannotWrite, UnknownExtension}

\* An exception of the codec that propagates out of pixelate_image unchanged.
Propagated(e, line) ==
    [type |-> e.type, text |-> e.text, lineno |-> line, cause |-> NoType]

\* raise ValueError(f"Could not open image {input_path}: {e}") inside the
\* except clause, which keeps e as the new exception's context.
CouldNotOpen(path, e) ==
    [type |-> "ValueError",
     text |-> <<"Could not open image ">> \o path \o <<": ">> \o e.text,
     lineno |-> 23,
     cause |-> e.type]

-----------------------------------------------------------------------------
(* The files an input path can name *)

Openable == {"truncated", "single", "multiframe"}

\* A file that cannot be opened has no size; the pixels of a truncated file
\* are never decoded, so one pattern stands for them all; the frames after the
\* first of a multi-frame file are never read.
Files ==
    {[kind |-> k, size |-> <<1, 1>>, pattern |-> "solid"] :
        k \in {"missing", "unidentified"}}
    \cup
    {[kind |-> "truncated", size |-> <<w, h>>, pattern |-> "solid"] :
        w \in 1..MaxDim, h \in 1..MaxDim}
    \cup
    {[kind |-> "single", size |-> <<w, h>>, pattern |-> pt] :
        w \in 1..MaxDim, h \in 1..MaxDim, pt \in Patterns}
    \cup
    {[kind |-> "multiframe", size |-> <<w, h>>, pattern |-> "index"] :
        w \in 1..MaxDim, h \in 1..MaxDim}

GridArgs == {None} \cup {Some(n) : n \in 0..MaxGrid}
ScaleArgs == 0..MaxScale

-----------------------------------------------------------------------------
(* Initial states: main has parsed its arguments and is about to call      *)
(* pixelate_image.                                                         *)

InitLocals ==
    /\ pc = "call"
    /\ img = NoImage
    /\ small_img = NoImage
    /\ pixelated_img = NoImage
    /\ fp_open = FALSE
    /\ written = <<>>
    /\ raised = NoException
    /\ ret = None
    /\ stdout = <<>>
    /\ exit_code = None

\* The call pixelate_image(args.input_path, args.output, args.width,
\* args.height, args.pixels_per_pixel) binds the parameters.
Call ==
    /\ input_path = args.input_path
    /\ output_path = args.output
    /\ width = args.width
    /\ height = args.height
    /\ pixels_per_pixel = args.pixels_per_pixel

Init ==
    /\ InitLocals
    /\ file \in Files
    /\ args \in [input_path : {photo_jpg, photo}, output : {None, Some(out_png)},
                  width : GridArgs, height : GridArgs, pixels_per_pixel : ScaleArgs]
    /\ (args.input_path = photo) = (args.output # None)
    /\ Call

\* Every input path over a small alphabet, with the other inputs kept few.  A
\* path that names a directory cannot be opened as an image.
InitPaths ==
    /\ InitLocals
    /\ file \in {f \in Files : f.size = <<1, 1>>}
    /\ args \in [input_path : AllPaths, output : {None, Some(out_png)},
                  width : {None, Some(0)}, height : {None}, pixels_per_pixel : {0, 1}]
    /\ NamesDirectory(args.input_path) => file.kind \notin Openable
    /\ Call

-----------------------------------------------------------------------------
(* pixelate_image *)

\* Image.open(input_path) succeeds: the file is identified and stays open.
ImageOpen ==
    /\ pc = "call"
    /\ file.kind \in Openable
    /\ img' = [size |-> file.size, px |-> SourcePixels(file.size, file.pattern)]
    /\ fp_open' = TRUE
    /\ pc' = "opened"
    /\ UNCHANGED <<args, file, input_path, output_path, width, height, pixels_per_pixel,
                   small_img, pixelated_img, written, raised, ret,
                   stdout, exit_code>>

\* Image.open(input_path) raises; the except clause re-raises a ValueError.
ImageOpenFails ==
    /\ pc = "call"
    /\ file.kind \notin Openable
    /\ raised' = CouldNotOpen(input_path,
                              IF file.kind = "missing" THEN FileNotFound ELSE Unidentified)
    /\ pc' = "raised"
    /\ UNCHANGED <<args, file, input_path, output_path, width, height, pixels_per_pixel,
                   img, small_img, pixelated_img, fp_open, written, ret,
                   stdout, exit_code>>

\* The if / elif / elif that fills in the missing grid dimensions.
ResolvedWidth(w, h, size) ==
    IF w = None /\ h = None THEN DefaultWidth
    ELSE IF w = None THEN IntTruncDiv(size[1] * Val(h), size[2])
    ELSE Val(w)

\* The default height with the aspect ratio inverted.
ResolvedHeightInverted(w, h, size) ==
    IF w = None /\ h = None THEN IntTruncDiv(size[1] * DefaultWidth, size[2])
    ELSE IF w = None THEN Val(h)
    ELSE IF h = None THEN IntTruncDiv(size[2] * Val(w), size[1])
    ELSE Val(h)

ResolvedHeight(w, h, size) ==
    IF w = None /\ h = None THEN IntTruncDiv(size[2] * DefaultWidth, size[1])
    ELSE IF w = None THEN Val(h)
    ELSE IF h = None THEN IntTruncDiv(size[2] * Val(w), size[1])
    ELSE Val(h)

ResolveDimensions ==
    /\ pc = "opened"
    /\ width' = Some(ResolvedWidth(width, height, img.size))
    /\ height' = Some(ResolvedHeight(width, height, img.size))
    /\ pc' = "resolved"
    /\ UNCHANGED <<args, file, input_path, output_path, pixels_per_pixel, img, small_img,
                   pixelated_img, fp_open, written, raised, ret, stdout,
                   exit_code>>

\* The handle after the decoder has read all pixel data: a single-frame file
\* is closed by the decoder, a multi-frame file stays open for seeking.
\* pixelate_image itself never closes img.
HandleAfterLoad(kind, open) == IF kind = "single" THEN FALSE ELSE open

\* small_img = img.resize((width, height), Image.NEAREST)
Shrink ==
    /\ pc = "resolved"
    /\ file.kind # "truncated"
    /\ Val(width) >= 1 /\ Val(height) >= 1
    /\ fp_open' = HandleAfterLoad(file.kind, fp_open)
    /\ small_img' = Resize(img, <<Val(width), Val(height)>>)
    /\ pc' = "shrunk"
    /\ UNCHANGED <<args, file, input_path, output_path, width, height, pixels_per_pixel,
                   img, pixelated_img, written, raised, ret, stdout,
                   exit_code>>

\* The first resize raises: the pixel data cannot be decoded, or the grid has
\* a side below 1.  The exception leaves pixelate_image as it is.
ShrinkFails ==
    /\ pc = "resolved"
    /\ file.kind = "truncated" \/ Val(width) < 1 \/ Val(height) < 1
    /\ IF file.kind = "truncated"
       THEN /\ raised' = Propagated(Truncated, 41)
            /\ UNCHANGED fp_open
       ELSE /\ raised' = Propagated(BadSize, 41)
            /\ fp_open' = HandleAfterLoad(file.kind, fp_open)
    /\ pc' = "raised"
    /\ UNCHANGED <<args, file, input_path, output_path, width, height, pixels_per_pixel,
                   img, small_img, pixelated_img, written, ret, stdout,
                   exit_code>>

\* The final size with only the width scaled.
FinalSizeWidthOnly(w, h, k) == <<w * k, h>>

\* final_width = width * pixels_per_pixel; final_height = height * pixels_per_pixel
FinalSize(w, h, k) == <<w * k, h * k>>

\* pixelated_img = small_img.resize((final_width, final_height), Image.NEAREST)
Enlarge ==
    /\ pc = "shrunk"
    /\ pixels_per_pixel >= 1
    /\ pixelated_img' = Resize(small_img, FinalSize(Val(width), Val(height), pixels_per_pixel))
    /\ pc' = "enlarged"
    /\ UNCHANGED <<args, file, input_path, output_path, width, height, pixels_per_pixel,
                   img, small_img, fp_open, written, raised, ret, stdout,
                   exit_code>>

\* The second resize raises: the final size has a side below 1.
EnlargeFails ==
    /\ pc = "shrunk"
    /\ pixels_per_pixel < 1
    /\ raised' = Propagated(BadSize, 46)
    /\ pc' = "raised"
    /\ UNCHANGED <<args, file, input_path, output_path, width, height, pixels_per_pixel,
                   img, small_img, pixelated_img, fp_open, written, ret,
                   stdout, exit_code>>

\* if output_path is None: ... output_path = f"{base_name}_pixelated{extension}"
ResolveOutputPath ==
    /\ pc = "enlarged"
    /\ output_path' = IF output_path = None THEN Some(DefaultOutputPath(input_path))
                      ELSE output_path
    /\ pc' = "pathed"
    /\ UNCHANGED <<args, file, input_path, width, height, pixels_per_pixel, img, small_img,
                   pixelated_img, fp_open, written, raised, ret, stdout,
                   exit_code>>

\* pixelated_img.save(output_path); return output_path
Save ==
    /\ pc = "pathed"
    /\ written' = Append(written, [path |-> Val(output_path), image |-> pixelated_img])
    /\ ret' = output_path
    /\ pc' = "returned"
    /\ UNCHANGED <<args, file, input_path, output_path, width, height, pixels_per_pixel,
                   img, small_img, pixelated_img, fp_open, raised, stdout,
                   exit_code>>

\* pixelated_img.save(output_path) raises; nothing catches it in pixelate_image.
SaveFails ==
    /\ pc = "pathed"
    /\ \E e \in SaveFailures : raised' = Propagated(e, 54)
    /\ pc' = "raised"
    /\ UNCHANGED <<args, file, input_path, output_path, width, height, pixels_per_pixel,
                   img, small_img, pixelated_img, fp_open, written, ret,
                   stdout, exit_code>>

-----------------------------------------------------------------------------
(* main *)

SavedLine(path) == <<"Pixelated image saved to: ">> \o path
ErrorLine(e) == <<"Error: ">> \o e.text

\* print(f"Pixelated image saved to: {output_path}"); return 0
MainSuccess ==
    /\ pc = "returned"
    /\ stdout' = Append(stdout, SavedLine(Val(ret)))
    /\ exit_code' = Some(0)
    /\ pc' = "exit"
    /\ UNCHANGED <<args, file, input_path, output_path, width, height, pixels_per_pixel,
                   img, small_img, pixelated_img, fp_open, written, raised,
                   ret>>

\* The except clause without its return: main falls through to return 0.
MainExceptFallsThrough ==
    /\ pc = "raised"
    /\ stdout' = Append(stdout, ErrorLine(raised))
    /\ exit_code' = Some(0)
    /\ pc' = "exit"
    /\ UNCHANGED <<args, file, input_path, output_path, width, height,
                   pixels_per_pixel, img, small_img, pixelated_img, fp_open,
                   written, raised, ret>>

\* except Exception as e: print(f"Error: {e}"); return 1
MainExcept ==
    /\ pc = "raised"
    /\ stdout' = Append(stdout, ErrorLine(raised))
    /\ exit_code' = Some(1)
    /\ pc' = "exit"
    /\ UNCHANGED <<args, file, input_path, output_path, width, height, pixels_per_pixel,
                   img, small_img, pixelated_img, fp_open, written, raised,
                   ret>>

Next ==
    \/ ImageOpen
    \/ ImageOpenFails
    \/ ResolveDimensions
    \/ Shrink
    \/ ShrinkFails
    \/ Enlarge
    \/ EnlargeFails
    \/ ResolveOutputPath
    \/ Save
    \/ SaveFails
    \/ MainSuccess
    \/ MainExcept

Spec == Init /\ [][Next]_vars

SpecPaths == InitPaths /\ [][Next]_vars

-----------------------------------------------------------------------------
(* Vocabulary of the properties *)

\* The grid has been resolved (lines 29-38 have run).
Resolved == pc \in {"resolved", "shrunk", "enlarged", "pathed", "returned"}
            \/ (pc \in {"raised", "exit"} /\ img # NoImage)

\* pixelate_image has returned normally / has raised.
Succeeded == ret # None
Failed == raised # NoException

\* The source image's natural size.
W0 == img.size[1]
H0 == img.size[2]

\* The resolved grid and the scale.
tw == Val(width)
th == Val(height)
k == pixels_per_pixel

\* The error kinds of the contract: a LoadError is the exception raised by the
\* except clause around Image.open, a SaveError an exception raised for the
\* save step; both wrap their cause.
IsLoadError(e) == e.lineno = 23 /\ e.cause # NoType
IsSaveError(e) == e.lineno = 54 /\ e.cause # NoType

\* The source sample whose unit interval contains the centre of output cell i
\* when n_in samples are mapped onto n_out cells.
SampleUnderCentre(i, n_in, n_out) ==
    CHOOSE s \in 0..(n_in - 1) :
        /\ 2 * n_out * s <= (2 * i + 1) * n_in
        /\ (2 * i + 1) * n_in < 2 * n_out * (s + 1)

-----------------------------------------------------------------------------
(* Properties *)

\* C1: a successful pixelate_image call writes an image whose width is exactly
\* tw*k and whose height is exactly th*k, with one pixel at every position of
\* that rectangle; with k = 1 the size is the resolved (tw, th).
C1_OutputSize ==
    Succeeded =>
        /\ Len(written) = 1
        /\ written[1].image.size = <<tw * k, th * k>>
        /\ DOMAIN written[1].image.px = 0..(tw * k - 1)
        /\ \A x \in 0..(tw * k - 1) : DOMAIN written[1].image.px[x] = 0..(th * k - 1)
        /\ k = 1 => written[1].image.size = <<tw, th>>

C1_Witness ==
    /\ pc = "returned"
    /\ k = 2
    /\ args.width = Some(2) /\ args.height = None
    /\ file.size = <<3, 2>>
    /\ written[1].image.size = <<4, 2>>

\* C2: when exactly one of width/height is supplied, the supplied value is kept
\* and the other is the floor of the aspect-ratio quotient:
\* th = floor(H0 * tw / W0), respectively tw = floor(W0 * th / H0).
C2_AspectDerivation ==
    Resolved =>
        /\ (args.width # None /\ args.height = None) =>
               /\ width = args.width
               /\ th * W0 <= H0 * tw
               /\ H0 * tw < (th + 1) * W0
        /\ (args.width = None /\ args.height # None) =>
               /\ height = args.height
               /\ tw * H0 <= W0 * th
               /\ W0 * th < (tw + 1) * H0

C2_Witness ==
    /\ pc = "resolved"
    /\ args.width = Some(2) /\ args.height = None
    /\ img.size = <<3, 2>>
    /\ th = 1

\* C3: when both width and height are omitted, the width resolves to 32 and the
\* height to floor(H0 * 32 / W0).
C3_DefaultGrid ==
    (Resolved /\ args.width = None /\ args.height = None) =>
        /\ tw = 32
        /\ th = (H0 * 32) \div W0

C3_Witness ==
    /\ pc = "resolved"
    /\ args.width = None /\ args.height = None
    /\ img.size = <<3, 2>>
    /\ tw = 32 /\ th = 21

\* C4: for a source image with W0, H0 > 0 and supplied width/height that are
\* positive or omitted, the resolved grid has tw >= 1 and th >= 1.
C4_PositiveGrid ==
    (/\ Resolved
     /\ args.width # None => Val(args.width) >= 1
     /\ args.height # None => Val(args.height) >= 1)
    => (tw >= 1 /\ th >= 1)

\* C5: for k >= 1 the output image consists of tw x th blocks of k x k pixels;
\* every pixel of block (i, j) has the colour of cell (i, j) of the shrunk
\* image, which is the source pixel under the centre of that cell, so every
\* output colour is a colour of the source.
C5_UniformBlocks ==
    pc = "returned" =>
        LET out == written[1].image
        IN  /\ k >= 1
            /\ out.size = <<tw * k, th * k>>
            /\ \A i \in 0..(tw - 1), j \in 0..(th - 1) :
                  /\ small_img.px[i][j] =
                         img.px[SampleUnderCentre(i, W0, tw)][SampleUnderCentre(j, H0, th)]
                  /\ \A dx \in 0..(k - 1), dy \in 0..(k - 1) :
                         out.px[i * k + dx][j * k + dy] = small_img.px[i][j]
            /\ \A x \in DOMAIN out.px : \A y \in DOMAIN out.px[x] :
                  \E sx \in 0..(W0 - 1), sy \in 0..(H0 - 1) : out.px[x][y] = img.px[sx][sy]

C5_Witness ==
    /\ pc = "returned"
    /\ k = 2
    /\ file.pattern = "index"
    /\ img.size = <<3, 3>>
    /\ small_img.size = <<2, 2>>
    /\ written[1].image.px[2][3] = 8
    /\ written[1].image.px[1][0] = 0

\* C6 as stated: with no output path supplied, the path written and returned is
\* base + "_pixelated" + extension, the extension starting at the last "." of
\* the final path segment and empty if that segment has no ".".
C6_LastDotExtension ==
    (Succeeded /\ args.output = None) =>
        /\ written[1].path = Val(ret)
        /\ Val(ret) = LastDotSplit(args.input_path)[1] \o Suffix
                          \o LastDotSplit(args.input_path)[2]

\* C6 as amended: the extension starts at the last "." of the final path
\* segment only if a character other than "." precedes that dot within the
\* segment; otherwise the extension is empty and the base is the whole path.
C6_DefaultOutputPath ==
    (Succeeded /\ args.output = None) =>
        LET p == args.input_path
            start == RFind(p, "/") + 1
            dot == RFind(p, ".")
        IN  /\ written[1].path = Val(ret)
            /\ IF dot >= start /\ \E n \in start..(dot - 1) : p[n] # "."
               THEN Val(ret) = SubSeq(p, 1, dot - 1) \o Suffix \o SubSeq(p, dot, Len(p))
               ELSE Val(ret) = p \o Suffix

C6_Witness ==
    /\ pc = "returned"
    /\ args.output = None
    /\ args.input_path = <<".", "a">>
    /\ Val(ret) = <<".", "a">> \o Suffix

\* C7: if the input cannot be opened or decoded (missing file, corrupt data,
\* unsupported format), pixelate_image fails with a LoadError carrying the
\* original cause, and no output file is written.
C7_LoadError ==
    (file.kind \in {"missing", "unidentified", "truncated"} /\ pc \in {"raised", "exit"}) =>
        /\ IsLoadError(raised)
        /\ written = <<>>

\* C8: a failure of the save step surfaces as a SaveError wrapping the original
\* cause, and LoadError and SaveError are the only error kinds pixelate_image
\* raises.
C8_OnlyLoadOrSaveError ==
    Failed =>
        /\ IsLoadError(raised) \/ IsSaveError(raised)
        /\ pixelated_img # NoImage => IsSaveError(raised)

\* C9: main returns 0 exactly when pixelate_image completed successfully, having
\* printed the single line "Pixelated image saved to: <path>" with the returned
\* path; it returns 1 on any failure, having printed the single line
\* "Error: <message>"; pixelate_image is not called again.
C9_ExitCode ==
    /\ pc = "exit" =>
          /\ (exit_code = Some(0)) = Succeeded
          /\ (exit_code = Some(1)) = Failed
          /\ Succeeded => stdout = <<SavedLine(Val(ret))>>
          /\ Failed => stdout = <<ErrorLine(raised)>>
          /\ Len(written) = (IF Succeeded THEN 1 ELSE 0)
    /\ pc # "exit" => (exit_code = None /\ stdout = <<>>)
    /\ ~(Succeeded /\ Failed)

C9_Witness ==
    /\ pc = "exit"
    /\ exit_code = Some(1)
    /\ raised.lineno = 54
    /\ stdout = <<<<"Error: ", "cannot write">>>>

\* C10: the file handle acquired by Image.open is closed on every exit path of
\* pixelate_image: no handle is open once the call has returned or raised.
C10_HandleClosed ==
    pc \in {"returned", "raised", "exit"} => ~fp_open

====
